---- MODULE Spec2Model ----
(***************************************************************************)
(* nixdoc: extraction of documentation entries from a Nix syntax tree      *)
(* (src/src/main.rs) and their DocBook rendering (src/src/docbook.rs).     *)
(*                                                                         *)
(* Text is a sequence of one-character strings.  The two markers "Type:"   *)
(* and "Example:" are single symbols of the alphabet: stripping a marker   *)
(* (line[5..], line[8..]) removes exactly that symbol.                     *)
(*                                                                         *)
(* The module holds one specification per component:                       *)
(*   SpecHarvest  retrieve_doc_comment on a token stream                   *)
(*   SpecParse    the line loop of parse_doc_comment                       *)
(*   SpecArgs     the loop of collect_lambda_args                          *)
(*   SpecEntry    collect_entry_information on one binding                 *)
(*   SpecMain     main: the iterator chain and the section loop            *)
(*   SpecRender   write_section_xml / write_argument_xml on an EventWriter *)
(***************************************************************************)
EXTENDS Integers, Sequences, FiniteSets, TLC

VARIABLES
    pc,         \* position of the component under check
    toks,       \* harvester: the tokens before the node's first token
    hres,       \* harvester: the Option<String> returned
    consumed,   \* parser: the lines of raw.trim().lines() iterated so far
    state,      \* parser: ParseState
    doc,        \* parser: accumulator `doc`
    doc_type,   \* parser: accumulator `doc_type`
    example,    \* parser: accumulator `example`
    dc,         \* parser: the DocComment returned
    lam0,       \* collector: the function literal passed in
    lambda,     \* collector: the local `lambda`
    args,       \* collector: the local `args`
    binding,    \* assembler: the AttrpathValue passed in
    eres,       \* assembler: the Option<DocItem> returned, with the calls made
    tree,       \* main: the parsed root expression
    entries,    \* main: the collected Vec<ManualEntry>
    output,     \* main: the sections written so far
    target,     \* renderer: the value being written
    evs,        \* renderer: the writer calls still to be made
    stack,      \* renderer: the EventWriter's open elements
    stack0,     \* renderer: the open elements at entry
    written,    \* renderer: the start elements written, with attributes
    failed      \* renderer: a writer call returned Err

vars == <<pc, toks, hres, consumed, state, doc, doc_type, example, dc,
          lam0, lambda, args, binding, eres, tree, entries, output,
          target, evs, stack, stack0, written, failed>>

harvestVars == <<toks, hres>>
parseVars   == <<consumed, state, doc, doc_type, example, dc>>
argsVars    == <<lam0, lambda, args>>
entryVars   == <<binding, eres>>
mainVars    == <<tree, entries, output>>
renderVars  == <<target, evs, stack, stack0, written, failed>>

(***************************************************************************)
(* Bounds                                                                  *)
(***************************************************************************)
MaxToks == 5
MaxLines == 4
MaxCurry == 3
MaxBindings == 3
MaxParas == 3

(***************************************************************************)
(* Text helpers (str::starts_with, str::contains, str::trim)               *)
(***************************************************************************)
NL == "\n"

StartsWith(s, p) == Len(s) >= Len(p) /\ SubSeq(s, 1, Len(p)) = p

Contains(s, c) == \E i \in 1..Len(s) : s[i] = c

DropFirst(s, n) == SubSeq(s, n + 1, Len(s))

IsSpace(c) == c \in {" ", NL}

RECURSIVE TrimStart(_)
TrimStart(s) ==
    IF s # <<>> /\ IsSpace(Head(s)) THEN TrimStart(Tail(s)) ELSE s

RECURSIVE TrimEnd(_)
TrimEnd(s) ==
    IF s # <<>> /\ IsSpace(s[Len(s)]) THEN TrimEnd(SubSeq(s, 1, Len(s) - 1)) ELSE s

Trim(s) == TrimEnd(TrimStart(s))

(***************************************************************************)
(* Tokens.  kind is the SyntaxKind (TOKEN_WHITESPACE, TOKEN_COMMENT, any   *)
(* other kind), text the token's source text.                              *)
(***************************************************************************)
Ws(t)      == [kind |-> "ws", text |-> t]
Comment(t) == [kind |-> "comment", text |-> t]
Other(t)   == [kind |-> "other", text |-> t]

BlockOpen  == <<"/", "*">>
BlockClose == <<"*", "/">>

LineComment(body)  == Comment(<<"#">> \o body)
BlockComment(body) == Comment(BlockOpen \o body \o BlockClose)

\* rnix ast::Comment::text: the token text without its delimiters.
CommentText(t) ==
    IF Head(t) = "#" THEN Tail(t)
    ELSE SubSeq(t, 3, Len(t) - 2)

None == [some |-> FALSE, text |-> <<>>, parts |-> <<>>]
Some(t, p) == [some |-> TRUE, text |-> t, parts |-> p]

(***************************************************************************)
(* retrieve_doc_comment.  `ts` are the tokens before node.first_token(),   *)
(* so ts[Len(ts)] is its prev_token() and index 0 stands for "no token".   *)
(* `parts` lists the indices of the tokens whose text went into the        *)
(* result, in the order of the text.                                       *)
(***************************************************************************)
AdjacentLine(t) == t # <<>> /\ Head(t) = NL /\ ~Contains(Tail(t), NL)

MergeBackAcrossBlank(ts, i, text, parts) ==
    LET RECURSIVE Go(_, _, _)
        Go(j, tx, ps) ==
            IF j = 0 \/ ts[j].kind # "comment" THEN Some(tx, ps)
            ELSE LET tx1 == CommentText(ts[j].text) \o tx
                     ps1 == <<j>> \o ps
                 IN  IF j = 1 \/ ts[j - 1].kind # "ws" THEN Some(tx1, ps1)
                     ELSE IF Head(ts[j - 1].text) = NL
                          THEN Go(j - 2, ts[j - 1].text \o tx1, <<j - 1>> \o ps1)
                          ELSE Some(tx1, ps1)
    IN  Go(i, text, parts)

\* The `while let Some(comment) = Comment::cast(token)` loop, entered with
\* token = ts[i] and the accumulator `result` = text.
RECURSIVE MergeBack(_, _, _, _)
MergeBack(ts, i, text, parts) ==
    IF i = 0 \/ ts[i].kind # "comment" THEN Some(text, parts)
    ELSE LET text1  == CommentText(ts[i].text) \o text
             parts1 == <<i>> \o parts
         IN  IF i = 1 \/ ts[i - 1].kind # "ws" THEN Some(text1, parts1)
             ELSE IF AdjacentLine(ts[i - 1].text)
                  THEN MergeBack(ts, i - 2, ts[i - 1].text \o text1,
                                 <<i - 1>> \o parts1)
                  ELSE Some(text1, parts1)

RetrieveDocComment(ts) ==
    LET n == Len(ts) IN
    IF n = 0 THEN None
    ELSE LET i == IF ts[n].kind = "ws" THEN n - 1 ELSE n IN
         IF i = 0 THEN None
         ELSE IF ts[i].kind # "comment" THEN None
         ELSE IF StartsWith(ts[i].text, BlockOpen)
              THEN Some(CommentText(ts[i].text), <<i>>)
              ELSE MergeBack(ts, i, <<>>, <<>>)

(***************************************************************************)
(* Token streams the tokenizer can produce: whitespace is one maximal      *)
(* token, and a line comment runs to the end of its line, so the next      *)
(* token is whitespace that starts with the newline.                       *)
(***************************************************************************)
WsTexts == { <<" ">>, <<NL>>, <<NL, " ">>, <<NL, NL>>, <<" ", NL>> }

TokenMenu ==
    { Ws(t) : t \in WsTexts }
    \cup { LineComment(<<"x">>), BlockComment(<<"y">>), Other(<<";">>) }

IsLine(t)  == t.kind = "comment" /\ Head(t.text) = "#"
IsBlock(t) == t.kind = "comment" /\ StartsWith(t.text, BlockOpen)

LexOk(ts) ==
    /\ \A i \in 1..(Len(ts) - 1) : ~(ts[i].kind = "ws" /\ ts[i + 1].kind = "ws")
    /\ \A i \in 1..Len(ts) :
          IsLine(ts[i]) => /\ i < Len(ts)
                           /\ ts[i + 1].kind = "ws"
                           /\ Head(ts[i + 1].text) = NL

TokenStreams ==
    { ts \in UNION { [1..n -> TokenMenu] : n \in 0..MaxToks } : LexOk(ts) }

NewlineCount(t) == Cardinality({ i \in 1..Len(t) : t[i] = NL })

(***************************************************************************)
(* Idle values of the components a specification does not run              *)
(***************************************************************************)
NoDocComment == [doc |-> <<>>, doc_type |-> None, example |-> None]

HarvestIdle == toks = <<>> /\ hres = None
ParseIdle ==
    /\ consumed = <<>> /\ state = "Doc"
    /\ doc = <<>> /\ doc_type = <<>> /\ example = <<>>
    /\ dc = NoDocComment
ArgsIdle == lam0 = <<>> /\ lambda = <<>> /\ args = <<>>
EntryIdle == binding = <<>> /\ eres = <<>>
MainIdle == tree = <<>> /\ entries = <<>> /\ output = <<>>
RenderIdle ==
    /\ target = <<>> /\ evs = <<>> /\ stack = <<>> /\ stack0 = <<>>
    /\ written = <<>> /\ failed = FALSE

(***************************************************************************)
(* SpecHarvest                                                             *)
(***************************************************************************)
InitHarvest ==
    /\ pc = "harvest"
    /\ toks \in TokenStreams
    /\ hres = None
    /\ ParseIdle /\ ArgsIdle /\ EntryIdle /\ MainIdle /\ RenderIdle

Harvest ==
    /\ pc = "harvest"
    /\ hres' = RetrieveDocComment(toks)
    /\ pc' = "harvested"
    /\ UNCHANGED <<toks, parseVars, argsVars, entryVars, mainVars, renderVars>>

SpecHarvest == InitHarvest /\ [][Harvest]_vars

(***************************************************************************)
(* parse_doc_comment                                                       *)
(***************************************************************************)
TypeMarker    == <<"Type:">>
ExampleMarker == <<"Example:">>

OptNone == [some |-> FALSE, text |-> <<>>]
OptSome(t) == [some |-> TRUE, text |-> t]

\* The parser locals: state, doc, doc_type, example.
ParseStart == [state |-> "Doc", doc |-> <<>>, doc_type |-> <<>>, example |-> <<>>]

Push(s, mode, t) ==
    [state    |-> mode,
     doc      |-> IF mode = "Doc" THEN s.doc \o t \o <<NL>> ELSE s.doc,
     doc_type |-> IF mode = "Type" THEN s.doc_type \o t ELSE s.doc_type,
     example  |-> IF mode = "Example" THEN s.example \o t \o <<NL>> ELSE s.example]

\* A line without a marker ends the type signature and goes back to Doc.
ParseLineStepTypeOneLine(s, line) ==
    LET l0  == Trim(line)
        isT == StartsWith(l0, TypeMarker)
        l1  == IF isT THEN DropFirst(l0, 1) ELSE l0
        isE == StartsWith(l1, ExampleMarker)
        l2  == IF isE THEN DropFirst(l1, 1) ELSE l1
        m   == IF isE THEN "Example"
               ELSE IF isT THEN "Type"
               ELSE IF s.state = "Type" THEN "Doc" ELSE s.state
    IN  Push(s, m, Trim(l2))

\* The first marker fixes the mode for the rest of the block.
ParseLineStepFirstMarkerWins(s, line) ==
    LET l0  == Trim(line)
        isT == StartsWith(l0, TypeMarker)
        l1  == IF isT THEN DropFirst(l0, 1) ELSE l0
        isE == StartsWith(l1, ExampleMarker)
        l2  == IF isE THEN DropFirst(l1, 1) ELSE l1
        m   == IF s.state # "Doc" THEN s.state
               ELSE IF isE THEN "Example"
               ELSE IF isT THEN "Type" ELSE "Doc"
    IN  Push(s, m, Trim(l2))

\* One iteration of `for line in raw.trim().lines()`.
ParseLineStep(s, line) ==
    LET l0  == Trim(line)
        isT == StartsWith(l0, TypeMarker)
        s1  == IF isT THEN "Type" ELSE s.state
        l1  == IF isT THEN DropFirst(l0, 1) ELSE l0
        isE == StartsWith(l1, ExampleMarker)
        s2  == IF isE THEN "Example" ELSE s1
        l2  == IF isE THEN DropFirst(l1, 1) ELSE l1
    IN  Push(s, s2, Trim(l2))

\* The closure f and the DocComment built after the loop.
ParseResult(s) ==
    [doc      |-> Trim(s.doc),
     doc_type |-> IF s.doc_type = <<>> THEN OptNone ELSE OptSome(s.doc_type),
     example  |-> IF s.example = <<>> THEN OptNone ELSE OptSome(s.example)]

\* str::lines on a text that does not end in a newline.
RECURSIVE SplitLines(_, _)
SplitLines(s, cur) ==
    IF s = <<>> THEN <<cur>>
    ELSE IF Head(s) = NL THEN <<cur>> \o SplitLines(Tail(s), <<>>)
    ELSE SplitLines(Tail(s), Append(cur, Head(s)))

Lines(s) == IF s = <<>> THEN <<>> ELSE SplitLines(s, <<>>)

RECURSIVE ParseLoop(_, _)
ParseLoop(s, ls) ==
    IF ls = <<>> THEN s ELSE ParseLoop(ParseLineStep(s, Head(ls)), Tail(ls))

ParseDocComment(raw) == ParseResult(ParseLoop(ParseStart, Lines(Trim(raw))))

(***************************************************************************)
(* SpecParse: the lines of raw.trim().lines() are drawn one per iteration. *)
(* raw.trim() leaves no blank or indented first line and no blank last     *)
(* line.                                                                   *)
(***************************************************************************)
LineMenu ==
    { <<"x">>, <<" ", "y">>, <<>>,
      <<"Type:", " ", "x">>, <<"Example:">>,
      <<"Type:", "Example:", "y">>, <<"Type:", " ", "Example:">>,
      <<" ", "Example:", " ", "x">>, <<"x", "Type:">> }

InitParse ==
    /\ pc = "parse"
    /\ ParseIdle
    /\ HarvestIdle /\ ArgsIdle /\ EntryIdle /\ MainIdle /\ RenderIdle

ParseLine ==
    /\ pc = "parse"
    /\ Len(consumed) < MaxLines
    /\ \E line \in LineMenu :
          /\ consumed = <<>> => line # <<>> /\ ~IsSpace(Head(line))
          /\ LET s == ParseLineStep([state |-> state, doc |-> doc,
                                     doc_type |-> doc_type, example |-> example],
                                    line)
             IN  /\ state' = s.state
                 /\ doc' = s.doc
                 /\ doc_type' = s.doc_type
                 /\ example' = s.example
          /\ consumed' = Append(consumed, line)
    /\ UNCHANGED <<pc, dc, harvestVars, argsVars, entryVars, mainVars, renderVars>>

ParseFinish ==
    /\ pc = "parse"
    /\ consumed # <<>> =>
          LET last == consumed[Len(consumed)]
          IN  last # <<>> /\ ~IsSpace(last[Len(last)])
    /\ dc' = ParseResult([state |-> state, doc |-> doc,
                          doc_type |-> doc_type, example |-> example])
    /\ pc' = "parsed"
    /\ UNCHANGED <<consumed, state, doc, doc_type, example,
                   harvestVars, argsVars, entryVars, mainVars, renderVars>>

NextParse == ParseLine \/ ParseFinish

SpecParse == InitParse /\ [][NextParse]_vars

(***************************************************************************)
(* Syntax tree.  An expression is                                          *)
(*   [kind |-> "other"]                          any other expression      *)
(*   [kind |-> "lambda", param, body]            ast::Lambda               *)
(*   [kind |-> "set", bindings]                  ast::AttrSet              *)
(* a parameter is an IdentParam [kind, name, pre] or a Pattern             *)
(* [kind, entries] of pat_entries [name, pre]; a binding (AttrpathValue)   *)
(* is [pre, attrpath, value].  `pre` holds the tokens before the node's    *)
(* first token.                                                            *)
(***************************************************************************)
OtherExpr == [kind |-> "other"]
LambdaExpr(p, b) == [kind |-> "lambda", param |-> p, body |-> b]
SetExpr(bs) == [kind |-> "set", bindings |-> bs]

IdentParam(n, pre) == [kind |-> "ident", name |-> n, pre |-> pre]
PatEntry(n, pre) == [name |-> n, pre |-> pre]
PatternParam(es) == [kind |-> "pattern", entries |-> es]

Binding(pre, path, v) == [pre |-> pre, attrpath |-> path, value |-> v]

(***************************************************************************)
(* collect_lambda_args                                                     *)
(***************************************************************************)
Flat(a) == [tag |-> "Flat", list |-> <<a>>]
Pattern(as) == [tag |-> "Pattern", list |-> as]

\* Option<String> of a harvested comment.
DocOf(pre) ==
    LET r == RetrieveDocComment(pre)
    IN  IF r.some THEN OptSome(r.text) ELSE OptNone

SingleArg(n, pre) == [name |-> n, doc |-> DocOf(pre)]

\* The arguments are pushed at the front.
PushParamFront(as, p) ==
    IF p.kind = "ident"
    THEN <<Flat(SingleArg(p.name, p.pre))>> \o as
    ELSE <<Pattern([j \in 1..Len(p.entries) |->
                      SingleArg(p.entries[j].name, p.entries[j].pre)])>> \o as

\* `match lambda.param().unwrap()`: what one iteration pushes onto args.
PushParam(as, p) ==
    IF p.kind = "ident"
    THEN Append(as, Flat(SingleArg(p.name, p.pre)))
    ELSE Append(as, Pattern([j \in 1..Len(p.entries) |->
                               SingleArg(p.entries[j].name, p.entries[j].pre)]))

\* `match lambda.body()`: curried or not.
Curried(l) == l.body.kind = "lambda"

RECURSIVE CollectLoop(_, _)
CollectLoop(l, as) ==
    LET as1 == PushParam(as, l.param)
    IN  IF Curried(l) THEN CollectLoop(l.body, as1) ELSE as1

CollectLambdaArgs(l) == CollectLoop(l, <<>>)

(***************************************************************************)
(* SpecArgs                                                                *)
(***************************************************************************)
PreUndocumented == <<>>
PreDocumented == <<BlockComment(<<"d">>), Ws(<<" ">>)>>

ParamMenu ==
    { IdentParam(n, pre) : n \in {<<"a">>, <<"b">>}, pre \in {PreUndocumented, PreDocumented} }
    \cup { PatternParam(es) :
             es \in { <<>>,
                      <<PatEntry(<<"b">>, PreUndocumented), PatEntry(<<"c">>, PreUndocumented)>>,
                      <<PatEntry(<<"c">>, PreDocumented), PatEntry(<<"b">>, PreUndocumented)>>,
                      <<PatEntry(<<"b">>, PreDocumented)>>,
                      <<PatEntry(<<"a">>, PreUndocumented), PatEntry(<<"b">>, PreDocumented),
                        PatEntry(<<"c">>, PreUndocumented)>> } }

RECURSIVE Lambdas(_, _)
Lambdas(k, bodies) ==
    IF k = 0 THEN {}
    ELSE { LambdaExpr(p, b) : p \in ParamMenu, b \in bodies \cup Lambdas(k - 1, bodies) }

InitArgs ==
    /\ pc = "collect"
    /\ lam0 \in Lambdas(MaxCurry, {OtherExpr, SetExpr(<<>>)})
    /\ lambda = lam0
    /\ args = <<>>
    /\ HarvestIdle /\ ParseIdle /\ EntryIdle /\ MainIdle /\ RenderIdle

\* An iteration whose body is a function literal: the loop goes on.
CollectCurried ==
    /\ pc = "collect"
    /\ Curried(lambda)
    /\ args' = PushParam(args, lambda.param)
    /\ lambda' = lambda.body
    /\ UNCHANGED <<pc, lam0, harvestVars, parseVars, entryVars, mainVars, renderVars>>

\* An iteration whose body is no function literal: break, return args.
CollectLast ==
    /\ pc = "collect"
    /\ ~Curried(lambda)
    /\ args' = PushParam(args, lambda.param)
    /\ pc' = "collected"
    /\ UNCHANGED <<lam0, lambda, harvestVars, parseVars, entryVars, mainVars, renderVars>>

NextArgs == CollectCurried \/ CollectLast

SpecArgs == InitArgs /\ [][NextArgs]_vars

(***************************************************************************)
(* retrieve_doc_item and collect_entry_information.  `calls` lists the     *)
(* calls made on the way, in order.                                        *)
(***************************************************************************)
NoItem(calls) == [some |-> FALSE, item |-> <<>>, calls |-> calls]
SomeItem(it, calls) == [some |-> TRUE, item |-> it, calls |-> calls]

DocItem(n, c, as) == [name |-> n, comment |-> c, args |-> as]

\* The attribute path is resolved before the comment is looked at, and a
\* missing comment is read as an empty one.
RetrieveDocItemDefaultComment(node) ==
    LET comment == RetrieveDocComment(node.pre)
    IN  SomeItem(DocItem(node.attrpath, ParseDocComment(comment.text), <<>>),
                 <<"attrpath", "retrieve_doc_comment", "parse_doc_comment">>)

RetrieveDocItem(node) ==
    LET comment == RetrieveDocComment(node.pre)
    IN  IF ~comment.some THEN NoItem(<<"retrieve_doc_comment">>)
        ELSE SomeItem(DocItem(node.attrpath, ParseDocComment(comment.text), <<>>),
                      <<"retrieve_doc_comment", "attrpath", "parse_doc_comment">>)

CollectEntryInformation(entry) ==
    LET doc_item == RetrieveDocItem(entry)
    IN  IF ~doc_item.some THEN doc_item
        ELSE IF entry.value.kind = "lambda"
             THEN SomeItem(DocItem(doc_item.item.name, doc_item.item.comment,
                                   CollectLambdaArgs(entry.value)),
                           Append(doc_item.calls, "collect_lambda_args"))
             ELSE doc_item

(***************************************************************************)
(* SpecEntry                                                               *)
(***************************************************************************)
EntryPres ==
    { <<>>,
      <<Other(<<";">>), Ws(<<NL>>)>>,
      <<Ws(<<NL, NL>>)>>,
      <<LineComment(<<" ", "x">>), Ws(<<NL>>)>>,
      <<BlockComment(<<" ", "x", NL, "Type:", "y", NL, "Example:", "z", " ">>),
        Ws(<<NL>>)>>,
      <<BlockComment(<<"x", NL, NL, "y">>)>> }

InitEntry ==
    /\ pc = "entry"
    /\ binding \in { Binding(pre, path, v) :
                       pre \in EntryPres,
                       path \in {<<"f">>, <<"f", "'">>},
                       v \in {OtherExpr, SetExpr(<<>>)} \cup Lambdas(2, {OtherExpr}) }
    /\ eres = NoItem(<<>>)
    /\ HarvestIdle /\ ParseIdle /\ ArgsIdle /\ MainIdle /\ RenderIdle

CollectEntry ==
    /\ pc = "entry"
    /\ eres' = CollectEntryInformation(binding)
    /\ pc' = "returned"
    /\ UNCHANGED <<binding, harvestVars, parseVars, argsVars, mainVars, renderVars>>

SpecEntry == InitEntry /\ [][CollectEntry]_vars

(***************************************************************************)
(* main: the iterator chain, the heading and the section loop              *)
(***************************************************************************)
RECURSIVE Concat(_)
Concat(ss) == IF ss = <<>> THEN <<>> ELSE Head(ss) \o Concat(Tail(ss))

\* str::split("\n\n")
RECURSIVE SplitParas(_, _)
SplitParas(s, cur) ==
    IF s = <<>> THEN <<cur>>
    ELSE IF StartsWith(s, <<NL, NL>>) THEN <<cur>> \o SplitParas(DropFirst(s, 2), <<>>)
    ELSE SplitParas(Tail(s), Append(cur, Head(s)))

ManualEntry(category, d) ==
    [category    |-> category,
     name        |-> d.name,
     description |-> SplitParas(d.comment.doc, <<>>),
     fn_type     |-> d.comment.doc_type,
     example     |-> d.comment.example,
     args        |-> d.args]

\* preorder() filtered to WalkEvent::Enter and cast to AttrSet: the
\* attribute sets of the tree, each before the ones nested in it.
RECURSIVE AttrSets(_)
AttrSets(e) ==
    IF e.kind = "lambda" THEN AttrSets(e.body)
    ELSE IF e.kind = "set"
    THEN <<e>> \o Concat([i \in 1..Len(e.bindings) |-> AttrSets(e.bindings[i].value)])
    ELSE <<>>

\* flat_map(children) and filter_map(AttrpathValue::cast)
CandidateBindings(root) ==
    LET sets == AttrSets(root)
    IN  Concat([i \in 1..Len(sets) |-> sets[i].bindings])

\* filter_map(collect_entry_information) and map(ManualEntry {..})
RECURSIVE FilterMapEntries(_, _)
FilterMapEntries(bs, category) ==
    IF bs = <<>> THEN <<>>
    ELSE LET r == CollectEntryInformation(Head(bs))
         IN  (IF r.some THEN <<ManualEntry(category, r.item)>> ELSE <<>>)
             \o FilterMapEntries(Tail(bs), category)

MainEntries(root, category) == FilterMapEntries(CandidateBindings(root), category)

(***************************************************************************)
(* SpecMain                                                                *)
(***************************************************************************)
Category == <<"c">>

PreComment == <<LineComment(<<" ", "x">>), Ws(<<NL>>)>>
PreNoComment == <<Other(<<";">>), Ws(<<NL>>)>>

InnerSets ==
    { <<>>,
      <<Binding(PreComment, <<"c">>, OtherExpr)>>,
      <<Binding(PreNoComment, <<"c">>, OtherExpr),
        Binding(PreComment, <<"d">>, LambdaExpr(IdentParam(<<"a">>, <<>>), OtherExpr))>> }

TopValues ==
    { OtherExpr, LambdaExpr(IdentParam(<<"a">>, <<>>), OtherExpr) }
    \cup { SetExpr(bs) : bs \in InnerSets }
    \cup { LambdaExpr(IdentParam(<<"a">>, <<>>),
                      SetExpr(<<Binding(PreComment, <<"c">>, OtherExpr)>>)) }

TopBindings ==
    { Binding(pre, path, v) :
        pre \in {PreComment, PreNoComment}, path \in {<<"a">>, <<"b">>}, v \in TopValues }

Trees ==
    { SetExpr(bs) : bs \in UNION { [1..n -> TopBindings] : n \in 0..MaxBindings } }

InitMain ==
    /\ pc = "main"
    /\ tree \in Trees
    /\ entries = <<>>
    /\ output = <<>>
    /\ HarvestIdle /\ ParseIdle /\ ArgsIdle /\ EntryIdle /\ RenderIdle

\* `let entries = ... .collect()` and the println! of the heading.
CollectEntries ==
    /\ pc = "main"
    /\ entries' = MainEntries(tree, Category)
    /\ output' = <<[kind |-> "heading", name |-> Category]>>
    /\ pc' = "sections"
    /\ UNCHANGED <<tree, harvestVars, parseVars, argsVars, entryVars, renderVars>>

\* One iteration of `for entry in entries`: output holds the heading and
\* one section per entry written.
WriteSection ==
    /\ pc = "sections"
    /\ Len(output) - 1 < Len(entries)
    /\ output' = Append(output, [kind |-> "section", name |-> entries[Len(output)].name])
    /\ UNCHANGED <<pc, tree, entries, harvestVars, parseVars, argsVars, entryVars, renderVars>>

Exit ==
    /\ pc = "sections"
    /\ Len(output) - 1 = Len(entries)
    /\ pc' = "exit"
    /\ UNCHANGED <<tree, entries, output, harvestVars, parseVars, argsVars, entryVars,
                   renderVars>>

NextMain == CollectEntries \/ WriteSection \/ Exit

SpecMain == InitMain /\ [][NextMain]_vars

(***************************************************************************)
(* DocBook output (docbook.rs).  A writer call is an event; the fixed      *)
(* texts are spelled out character by character.                           *)
(***************************************************************************)
Start(n) == [ev |-> "start", name |-> n, attrs |-> <<>>]
StartAttr(n, as) == [ev |-> "start", name |-> n, attrs |-> as]
End == [ev |-> "end"]
Chars(t) == [ev |-> "chars", text |-> t]
CData(t) == [ev |-> "cdata", text |-> t]
Attr(k, v) == [key |-> k, value |-> v]

Quote == "'"
Prime == <<"-", "p", "r", "i", "m", "e">>
LibPrefix == <<"l", "i", "b", ".">>
IdPrefix == <<"f", "u", "n", "c", "t", "i", "o", "n", "-", "l", "i", "b", "r", "a", "r", "y", "-">>
OverridesDir == <<".", "/", "o", "v", "e", "r", "r", "i", "d", "e", "s", "/">>
XmlSuffix == <<".", "x", "m", "l">>
LocationsXml == <<".", "/", "l", "o", "c", "a", "t", "i", "o", "n", "s", ".", "x", "m", "l">>
FunctionArgument == <<"F", "u", "n", "c", "t", "i", "o", "n", " ", "a", "r", "g", "u", "m", "e", "n", "t">>
PatternTerm == <<"p", "a", "t", "t", "e", "r", "n">>
StructuredArgument == <<"S", "t", "r", "u", "c", "t", "u", "r", "e", "d", " ", "f", "u", "n", "c", "t", "i", "o", "n", " ", "a", "r", "g", "u", "m", "e", "n", "t">>
UsageExample == <<" ", "u", "s", "a", "g", "e", " ", "e", "x", "a", "m", "p", "l", "e">>

\* Only the first quote is replaced (str::replacen with a count of 1).
RECURSIVE ReplaceFirstQuote(_)
ReplaceFirstQuote(s) ==
    IF s = <<>> THEN <<>>
    ELSE IF Head(s) = Quote THEN Prime \o Tail(s)
    ELSE <<Head(s)>> \o ReplaceFirstQuote(Tail(s))

\* name.replace("'", "-prime")
RECURSIVE ReplaceQuote(_)
ReplaceQuote(s) ==
    IF s = <<>> THEN <<>>
    ELSE IF Head(s) = Quote THEN Prime \o ReplaceQuote(Tail(s))
    ELSE <<Head(s)>> \o ReplaceQuote(Tail(s))

WriteFlat(arg) ==
    << Start("varlistentry"),
       Start("term"), Start("varname"), Chars(arg.name), End, End,
       Start("listitem"), Start("para"),
       Chars(Trim(IF arg.doc.some THEN arg.doc.text ELSE FunctionArgument)),
       End, End,
       End >>

\* The pattern entry's inner variablelist is left open.
WriteArgumentXmlUnclosedList(a) ==
    IF a.tag = "Flat" THEN WriteFlat(a.list[1])
    ELSE << Start("varlistentry"),
            Start("term"), Start("varname"), Chars(PatternTerm), End, End,
            Start("listitem"), Start("para"), Chars(StructuredArgument), End,
            Start("variablelist") >>
         \o Concat([i \in 1..Len(a.list) |-> WriteFlat(a.list[i])])
         \o << End, End >>

\* Argument::write_argument_xml
WriteArgumentXml(a) ==
    IF a.tag = "Flat" THEN WriteFlat(a.list[1])
    ELSE << Start("varlistentry"),
            Start("term"), Start("varname"), Chars(PatternTerm), End, End,
            Start("listitem"), Start("para"), Chars(StructuredArgument), End,
            Start("variablelist") >>
         \o Concat([i \in 1..Len(a.list) |-> WriteFlat(a.list[i])])
         \o << End, End, End >>

\* ManualEntry::write_section_xml
WriteSectionXml(e) ==
    LET title == LibPrefix \o e.category \o <<".">> \o e.name
        ident == LibPrefix \o e.category \o <<".">> \o ReplaceQuote(e.name)
        override_path == OverridesDir \o ident \o XmlSuffix
    IN  << StartAttr("section", <<Attr("xml:id", IdPrefix \o ident)>>),
           Start("title"), Start("function"), Chars(title), End, End,
           StartAttr("xi:include", <<Attr("href", override_path)>>),
           Start("xi:fallback") >>
        \o (IF e.fn_type.some
            THEN << Start("subtitle"), Start("literal"), Chars(e.fn_type.text), End, End >>
            ELSE <<>>)
        \o Concat([i \in 1..Len(e.description) |->
                     << Start("para"), Chars(e.description[i]), End >>])
        \o (IF e.args # <<>>
            THEN << Start("variablelist") >>
                 \o Concat([i \in 1..Len(e.args) |-> WriteArgumentXml(e.args[i])])
                 \o << End >>
            ELSE <<>>)
        \o (IF e.example.some
            THEN << Start("example"),
                    Start("title"),
                    Start("function"), Chars(title), End,
                    Chars(UsageExample), End,
                    Start("programlisting"), CData(e.example.text), End,
                    End >>
            ELSE <<>>)
        \o << End, End,
              StartAttr("xi:include", <<Attr("href", LocationsXml),
                                        Attr("xpointer", ident)>>),
              End,
              End >>

(***************************************************************************)
(* SpecRender: the calls of one write_section_xml or write_argument_xml    *)
(* are made one by one on an EventWriter that already has the elements     *)
(* stack0 open.  No write fails; end_element on a writer with no open      *)
(* element returns Err, which `?` hands to the caller.                     *)
(***************************************************************************)
ArgPlain == [name |-> <<"a">>, doc |-> OptNone]
ArgDocumented == [name |-> <<"b">>, doc |-> OptSome(<<" ", "d", " ">>)]

ArgumentMenu ==
    { Flat(ArgPlain), Flat(ArgDocumented), Pattern(<<>>),
      Pattern(<<ArgDocumented>>), Pattern(<<ArgPlain, ArgDocumented>>) }

ArgLists ==
    { <<>>, <<Flat(ArgPlain)>>, <<Pattern(<<>>)>>,
      <<Flat(ArgDocumented), Pattern(<<ArgPlain, ArgDocumented>>)>>,
      <<Pattern(<<ArgDocumented>>), Flat(ArgPlain)>> }

EntryMenu ==
    { [category    |-> c,
       name        |-> n,
       description |-> [i \in 1..k |-> <<"p">>],
       fn_type     |-> t,
       example     |-> x,
       args        |-> as] :
        c \in {<<"c">>, <<"s", Quote>>},
        n \in {<<"f">>, <<"f", Quote>>, <<Quote, "g", Quote>>},
        k \in 0..MaxParas,
        t \in {OptNone, OptSome(<<"t">>)},
        x \in {OptNone, OptSome(<<"e", NL>>)},
        as \in ArgLists }

InitRender ==
    /\ pc = "render"
    /\ target \in { [what |-> "section", value |-> e] : e \in EntryMenu }
                  \cup { [what |-> "argument", value |-> a] : a \in ArgumentMenu }
    /\ evs = IF target.what = "section" THEN WriteSectionXml(target.value)
             ELSE WriteArgumentXml(target.value)
    /\ stack0 \in {<<>>, <<"variablelist">>}
    /\ stack = stack0
    /\ written = <<>>
    /\ failed = FALSE
    /\ HarvestIdle /\ ParseIdle /\ ArgsIdle /\ EntryIdle /\ MainIdle

\* w.write(XmlEvent::start_element(..))
EmitStart ==
    /\ pc = "render" /\ evs # <<>> /\ Head(evs).ev = "start"
    /\ stack' = Append(stack, Head(evs).name)
    /\ written' = IF Head(evs).attrs # <<>> THEN Append(written, Head(evs)) ELSE written
    /\ evs' = Tail(evs)
    /\ UNCHANGED <<pc, target, stack0, failed, harvestVars, parseVars, argsVars,
                   entryVars, mainVars>>

\* w.write(XmlEvent::end_element())
EmitEnd ==
    /\ pc = "render" /\ evs # <<>> /\ Head(evs).ev = "end"
    /\ IF stack = <<>>
       THEN failed' = TRUE /\ evs' = <<>> /\ stack' = stack
       ELSE failed' = failed /\ evs' = Tail(evs)
            /\ stack' = SubSeq(stack, 1, Len(stack) - 1)
    /\ UNCHANGED <<pc, target, stack0, written, harvestVars, parseVars, argsVars,
                   entryVars, mainVars>>

\* w.write(XmlEvent::characters(..)) and w.write(XmlEvent::cdata(..))
EmitText ==
    /\ pc = "render" /\ evs # <<>> /\ Head(evs).ev \in {"chars", "cdata"}
    /\ evs' = Tail(evs)
    /\ UNCHANGED <<pc, target, stack, stack0, written, failed, harvestVars, parseVars,
                   argsVars, entryVars, mainVars>>

\* Ok(()) or the Err of a failed call
Return ==
    /\ pc = "render" /\ evs = <<>>
    /\ pc' = "rendered"
    /\ UNCHANGED <<target, evs, stack, stack0, written, failed, harvestVars, parseVars,
                   argsVars, entryVars, mainVars>>

NextRender == EmitStart \/ EmitEnd \/ EmitText \/ Return

SpecRender == InitRender /\ [][NextRender]_vars

(***************************************************************************)
(* Properties                                                              *)
(***************************************************************************)

\* The bindings of a tree in textual order: each binding is followed by the
\* bindings nested in its value.
RECURSIVE BindingsDepthFirst(_)
BindingsDepthFirst(e) ==
    IF e.kind = "lambda" THEN BindingsDepthFirst(e.body)
    ELSE IF e.kind = "set"
    THEN Concat([i \in 1..Len(e.bindings) |->
                   <<e.bindings[i]>> \o BindingsDepthFirst(e.bindings[i].value)])
    ELSE <<>>

RECURSIVE DocumentedNames(_)
DocumentedNames(bs) ==
    IF bs = <<>> THEN <<>>
    ELSE (IF RetrieveDocComment(Head(bs).pre).some THEN <<Head(bs).attrpath>> ELSE <<>>)
         \o DocumentedNames(Tail(bs))

SourceOrderNames(e) == DocumentedNames(BindingsDepthFirst(e))

\* C1: the entries main collects, and the sections it writes from them, are
\* the documented bindings in textual declaration order, bindings nested in
\* the values of other bindings included.
C1_SourceOrder ==
    pc \in {"sections", "exit"} =>
        /\ [i \in 1..Len(entries) |-> entries[i].name] = SourceOrderNames(tree)
        /\ \A i \in 2..Len(output) : output[i].name = SourceOrderNames(tree)[i - 1]

\* The shape <line comment A> <whitespace, two or more newlines>
\* <line comment B> <whitespace, one newline> <node>.
C2_Shape ==
    LET n == Len(toks) IN
    /\ n >= 4
    /\ toks[n].kind = "ws" /\ NewlineCount(toks[n].text) = 1
    /\ IsLine(toks[n - 1])
    /\ toks[n - 2].kind = "ws" /\ NewlineCount(toks[n - 2].text) >= 2
    /\ IsLine(toks[n - 3])

\* C2: on that shape the result is the text of B alone, and whatever the
\* tokens, a whitespace token is merged only when its text is one newline
\* followed by text without a newline.
C2_AdjacentRunOnly ==
    pc = "harvested" =>
        /\ C2_Shape =>
              /\ hres.some
              /\ hres.parts = <<Len(toks) - 1>>
              /\ hres.text = CommentText(toks[Len(toks) - 1].text)
        /\ \A k \in 1..Len(hres.parts) :
              toks[hres.parts[k]].kind = "ws" =>
                  /\ Head(toks[hres.parts[k]].text) = NL
                  /\ NewlineCount(toks[hres.parts[k]].text) = 1

C2_Witness ==
    /\ pc = "harvested"
    /\ C2_Shape
    /\ hres.parts = <<Len(toks) - 1>>

\* C3: a comment followed by whitespace with a blank line and then the node
\* is not returned; a comment is returned only when it precedes the node
\* directly or across whitespace without a blank line.
C3_BlankLineDetaches ==
    pc = "harvested" =>
        LET n == Len(toks) IN
        /\ ( /\ n >= 2
             /\ toks[n].kind = "ws" /\ NewlineCount(toks[n].text) >= 2
             /\ toks[n - 1].kind = "comment" ) => ~hres.some
        /\ hres.some =>
              \/ toks[n].kind = "comment"
              \/ /\ toks[n].kind = "ws" /\ NewlineCount(toks[n].text) <= 1
                 /\ n >= 2 /\ toks[n - 1].kind = "comment"

\* C4: when the returned text includes a block comment, it is that block
\* comment's text and nothing else.
C4_BlockNeverMerged ==
    pc = "harvested" /\ hres.some =>
        \A k \in 1..Len(hres.parts) :
            IsBlock(toks[hres.parts[k]]) =>
                /\ hres.parts = <<hres.parts[k]>>
                /\ hres.text = CommentText(toks[hres.parts[k]].text)

\* The parameters of a function literal, outermost first.
RECURSIVE Params(_)
Params(l) == IF l.kind = "lambda" THEN <<l.param>> \o Params(l.body) ELSE <<>>

Describes(arg, p) ==
    IF p.kind = "ident"
    THEN arg.tag = "Flat" /\ arg.list[1].name = p.name
    ELSE /\ arg.tag = "Pattern"
         /\ Len(arg.list) = Len(p.entries)
         /\ \A j \in 1..Len(p.entries) : arg.list[j].name = p.entries[j].name

C6_UndocumentedExcluded ==
    pc = "returned" =>
        IF RetrieveDocComment(binding.pre).some
        THEN eres.some /\ eres.item.name = binding.attrpath
        ELSE ~eres.some /\ eres.calls = <<"retrieve_doc_comment">>

C6_Witness ==
    /\ pc = "returned"
    /\ binding.value.kind = "lambda"
    /\ ~eres.some
    /\ eres.calls = <<"retrieve_doc_comment">>

MarkerLine(l) ==
    StartsWith(Trim(l), TypeMarker) \/ StartsWith(Trim(l), ExampleMarker)

\* The lines before the first marker line.
RECURSIVE DocLines(_)
DocLines(ls) ==
    IF ls = <<>> \/ MarkerLine(Head(ls)) THEN <<>>
    ELSE <<Head(ls)>> \o DocLines(Tail(ls))

RECURSIVE JoinDoc(_)
JoinDoc(ls) ==
    IF ls = <<>> THEN <<>> ELSE Trim(Head(ls)) \o <<NL>> \o JoinDoc(Tail(ls))

\* C7: the mode is Doc exactly while no marker line has been read, and the
\* description is made of the lines before the first marker line only.
C7_MarkerSticky ==
    pc \in {"parse", "parsed"} =>
        /\ state = "Doc" <=> Len(DocLines(consumed)) = Len(consumed)
        /\ doc = JoinDoc(DocLines(consumed))
        /\ pc = "parsed" => dc.doc = Trim(JoinDoc(DocLines(consumed)))

C7_Witness ==
    /\ pc = "parsed"
    /\ Len(consumed) = 3
    /\ ~MarkerLine(consumed[1]) /\ MarkerLine(consumed[2]) /\ ~MarkerLine(consumed[3])
    /\ dc.doc = Trim(consumed[1])
    /\ state # "Doc"

\* C8 as stated: no step from Type to Example or from Example to Type; once
\* in Type or Example, every later line goes to that section.
C8_OneWayEdges ==
    [][ /\ state = "Type" =>
              state' = "Type" /\ doc' = doc /\ example' = example
        /\ state = "Example" =>
              state' = "Example" /\ doc' = doc /\ doc_type' = doc_type ]_vars

\* The mode a line's markers ask for.
MarkerOf(l) ==
    LET t == Trim(l) IN
    IF StartsWith(t, TypeMarker)
    THEN IF StartsWith(DropFirst(t, 1), ExampleMarker) THEN "Example" ELSE "Type"
    ELSE IF StartsWith(t, ExampleMarker) THEN "Example" ELSE "none"

IsPrefix(a, b) == Len(a) <= Len(b) /\ SubSeq(b, 1, Len(a)) = a

\* C8 as amended: no step leads back to Doc; a line with a marker sets the
\* mode to the marker's section from any mode (Example when `Example:`
\* directly follows `Type:`), a line without one keeps the mode, and the
\* line is appended to the section of the mode it leaves in force.
C8_ModeMachine ==
    [][ /\ state' = "Doc" => state = "Doc"
        /\ consumed' # consumed =>
              LET m == MarkerOf(consumed'[Len(consumed')]) IN
              /\ state' = IF m = "none" THEN state ELSE m
              /\ state' # "Doc" => doc' = doc
              /\ state' # "Type" => doc_type' = doc_type
              /\ state' # "Example" => example' = example
              /\ IsPrefix(doc, doc') /\ IsPrefix(doc_type, doc_type')
              /\ IsPrefix(example, example') ]_vars

C8_Witness ==
    /\ pc = "parse"
    /\ Len(consumed) = 2
    /\ MarkerOf(consumed[1]) = "Type" /\ MarkerOf(consumed[2]) = "Example"
    /\ state = "Example"
    /\ doc_type # <<>>

\* The identifier of name n: r is n with every quote replaced by "-prime".
RECURSIVE Dequoted(_, _)
Dequoted(n, r) ==
    IF n = <<>> THEN r = <<>>
    ELSE IF Head(n) = Quote
    THEN StartsWith(r, Prime) /\ Dequoted(Tail(n), DropFirst(r, Len(Prime)))
    ELSE r # <<>> /\ Head(r) = Head(n) /\ Dequoted(Tail(n), Tail(r))

AttrValue(ev, k) ==
    (CHOOSE a \in { ev.attrs[i] : i \in 1..Len(ev.attrs) } : a.key = k).value

\* C9: the section's xml:id is "function-library-" followed by the
\* identifier "lib.<category>.<name, quotes replaced by -prime>", which
\* keeps no quote of the name; the override include path and the location
\* include's xpointer carry the same identifier.
C9_IdentQuoteSafe ==
    pc \in {"render", "rendered"} /\ target.what = "section" =>
        LET e    == target.value
            head == LibPrefix \o e.category \o <<".">>
            id   == DropFirst(AttrValue(written[1], "xml:id"), Len(IdPrefix))
        IN  /\ Len(written) <= 3
            /\ pc = "rendered" => Len(written) = 3
            /\ Len(written) >= 1 =>
                  /\ written[1].name = "section"
                  /\ StartsWith(AttrValue(written[1], "xml:id"), IdPrefix)
                  /\ StartsWith(id, head)
                  /\ Dequoted(e.name, DropFirst(id, Len(head)))
                  /\ ~Contains(DropFirst(id, Len(head)), Quote)
            /\ Len(written) >= 2 =>
                  /\ written[2].name = "xi:include"
                  /\ AttrValue(written[2], "href") = OverridesDir \o id \o XmlSuffix
            /\ Len(written) >= 3 =>
                  /\ written[3].name = "xi:include"
                  /\ AttrValue(written[3], "xpointer") = id

C9_Witness ==
    /\ pc = "rendered"
    /\ target.what = "section"
    /\ target.value.name = <<Quote, "g", Quote>>
    /\ Len(written) = 3
    /\ AttrValue(written[3], "xpointer")
         = LibPrefix \o target.value.category \o <<".">> \o Prime \o <<"g">> \o Prime

\* C10: the open-element depth never goes below its value at entry, the
\* elements open at entry are never closed, and on return exactly those
\* are open again; no end_element finds the writer without an open element.
C10_Balanced ==
    pc \in {"render", "rendered"} =>
        /\ ~failed
        /\ Len(stack) >= Len(stack0)
        /\ SubSeq(stack, 1, Len(stack0)) = stack0
        /\ pc = "rendered" => stack = stack0

C10_Witness ==
    /\ pc = "rendered"
    /\ target.what = "section"
    /\ stack0 # <<>>
    /\ stack = stack0
    /\ target.value.example.some
    /\ \E i \in 1..Len(target.value.args) : target.value.args[i] = Pattern(<<>>)

====
